---- MODULE Spec2Model ----
(***************************************************************************)
(* The asynchronous buffered log writer of tolog (tolog.go): the package   *)
(* globals, the producers' WriteSafe/PrintAndWriteSafe, the consumer       *)
(* goroutine writeToFile with flushBuffer and checkLogFileDate, initLog    *)
(* and CloseLogFile.  Every goroutine is a thread with a program counter;  *)
(* initLog and CloseLogFile are subroutines entered with a continuation    *)
(* stack, since they are called from producers, from the consumer's flush  *)
(* and from the API.  Go channels follow the language semantics: a send on *)
(* a full channel parks the sender on the channel's send queue, a receive  *)
(* hands the freed slot to the first parked sender, a send on (or a close  *)
(* of) a closed channel panics, a receive from a closed and empty channel  *)
(* yields the zero value "".                                               *)
(***************************************************************************)
EXTENDS Integers, Sequences, FiniteSets, TLC

\* ---------------------------------------------------------------- bounds
\* Producer goroutines and log calls per producer.
NumProducers == 2
MaxLines == 2
\* Goroutines that call CloseLogFile, and calls per goroutine.
NumClosers == 2
MaxCloses == 1
\* Successful initLog calls in one run (file handles, channels, consumers).
MaxOpens == 3
\* The clock: days 0..MaxDay.
MaxDay == 1
\* File writes the environment may fail in one run.
MaxWriteFails == 1
\* initLog calls the environment may fail in one run.
MaxOpenFails == 2
\* File closes the environment may fail in one run.
MaxCloseFails == 1
\* Reconfiguring calls (SetLogPrefix, SetLogFileDateFormat) in one run.
MaxSets == 1
\* The count threshold of writeToFile (the literal 100 of tolog.go:431 and
\* :446) and the capacity of writeChannel (channelSize, 300 by default and
\* never below 101, tolog.go:82 and :130), scaled down together.
FlushCount == 2
ChanCap == 3

\* --------------------------------------------------------------- threads
Producers == {<<"p", i>> : i \in 1..NumProducers}
Closers == {<<"k", i>> : i \in 1..NumClosers}
Consumers == {<<"c", i>> : i \in 1..MaxOpens}
\* The goroutine that reconfigures the writer.
Setter1 == <<"s", 1>>
Setters == {Setter1}
Clients == Producers \cup Closers \cup Setters
Threads == Clients \cup Consumers

\* ----------------------------------------------------------------- text
\* A string is a sequence of tokens.  The tokens of a log line:
Tok(kind, p, n) == [kind |-> kind, p |-> p, n |-> n]
colorInfoBg == Tok("colorInfoBg", 0, 0)
colorWarningBg == Tok("colorWarningBg", 0, 0)
colorErrorBg == Tok("colorErrorBg", 0, 0)
colorDebugBg == Tok("colorDebugBg", 0, 0)
colorNoticeBg == Tok("colorNoticeBg", 0, 0)
colorReset == Tok("colorReset", 0, 0)
LogTime == Tok("[time] ", 0, 0)
Newline == Tok("\n", 0, 0)
\* The level as CreateFullLog renders it: "[info] " plain, " info " coloured.
LevelPlain == Tok("[info] ", 0, 0)
LevelColor == Tok(" info ", 0, 0)
\* logContext of the n-th log call of producer number p.
Context(p, n) == Tok("ctx", p, n)

replacements == {colorInfoBg, colorWarningBg, colorErrorBg, colorDebugBg,
                 colorNoticeBg, colorReset}

\* stripColors: every occurrence of every colour code is replaced by "".
stripColors(log) == SelectSeq(log, LAMBDA tok : tok \notin replacements)

\* CreateFullLog for an info record, under the colour flag.
CreateFullLog(p, n, withColor) ==
    IF ~withColor
    THEN <<LogTime, LevelPlain, Context(p, n)>>
    ELSE <<LogTime, colorInfoBg, LevelColor, colorReset, Context(p, n)>>

\* strings.Join(buffer, "")
RECURSIVE Join(_)
Join(buffer) ==
    IF buffer = <<>> THEN <<>> ELSE Head(buffer) \o Join(Tail(buffer))

\* The log-call identities <<p, n>> in a string, in order of appearance.
RECURSIVE Contexts(_)
Contexts(s) ==
    IF s = <<>> THEN <<>>
    ELSE IF Head(s).kind = "ctx"
         THEN <<<<Head(s).p, Head(s).n>>>> \o Contexts(Tail(s))
         ELSE Contexts(Tail(s))

\* The layouts of a DateFormat that the model uses (tolog.go:44-45).
DateTime == "2006-01-02 15:04:05"
DateOnly == "2006-01-02"
Formats == {DateOnly, DateTime}

\* time.Now().In(LogTimeZone).Format(format) on day d: the text depends on
\* the layout and on the day.  The log file's path for a prefix and a
\* formatted day.
FormatDay(format, d) == <<format, d>>
LogFilePath(prefix, day) == <<"./logs/", prefix, "log-", day, ".log">>

\* ------------------------------------------------------------------ state
VARIABLES
    \* the package globals of tolog.go:49-85 (0 is nil)
    logFile,            \* index into handles, 0 for nil
    isLogFileClosed,
    currentLogDate,
    LogfilePrefix,
    logFileDateFormat,
    LogWithColor,
    writeChannel,       \* index into chans, 0 for nil
    closeChannel,       \* index into sigs, 0 for nil
    wg,                 \* the WaitGroup's counter
    \* the objects the globals refer to
    chans,              \* made string channels: buffered lines, closed flag,
                        \* parked senders
    sigs,               \* made struct{} channels: closed or not
    handles,            \* opened *os.File: path, closed or not
    tick,               \* per consumer, its ticker.C: a tick is pending or not
    disk,               \* path -> the file's content
    \* the environment
    today,              \* the day time.Now() is in
    writeFaults,        \* file writes the environment may still fail
    openFaults,         \* initLog calls the environment may still fail
    closeFaults,        \* file closes the environment may still fail
    status,             \* "running", or how the process ended
    \* the goroutines
    pc, stack,          \* position and continuation of every goroutine
    calls,              \* API calls a client goroutine has returned from
    FullLog,            \* the line a producer is sending
    buffer,             \* the local buffer of a consumer
    \* history
    enq,                \* log calls whose send completed, in order
    failed,             \* log calls that were in a batch whose write failed
    overlap,            \* a CloseLogFile call ran concurrently with another call
    closeLog,           \* whether a CloseLogFile call was made before all
                        \* producers had finished (early), or with the
                        \* writer already closed (again)
    reports,            \* "[error]" lines initLog has printed
    cut                 \* what was enqueued and which file was active when
                        \* the writer was last reconfigured

globals == <<logFile, isLogFileClosed, currentLogDate, LogfilePrefix,
             logFileDateFormat, writeChannel, closeChannel, wg>>
heap == <<chans, sigs, tick, handles>>
hist == <<enq, failed, overlap, closeLog, reports, cut>>
vars == <<globals, LogWithColor, heap, disk, today, openFaults, writeFaults,
          closeFaults, status, pc, stack, calls, FullLog, buffer, hist>>

Days == 0..MaxDay
Prefixes == {"", "app"}
Paths == {LogFilePath(x, FormatDay(f, d)) :
            x \in Prefixes, f \in Formats, d \in Days}
NoCut == [enq |-> <<>>, path |-> <<>>]

Running == status = "running"

\* The state after package initialisation (tolog.go:49-85): no file, no
\* channels, no consumer.
Uninitialized(b, o, k) ==
    /\ logFile = 0 /\ isLogFileClosed = TRUE /\ currentLogDate = <<>>
    /\ LogfilePrefix = "" /\ logFileDateFormat = DateOnly
    /\ LogWithColor = TRUE
    /\ writeChannel = 0 /\ closeChannel = 0 /\ wg = 0
    /\ chans = <<>> /\ sigs = <<>> /\ handles = <<>>
    /\ tick = [t \in Consumers |-> FALSE]
    /\ disk = [f \in Paths |-> <<>>]
    /\ today = 0 /\ writeFaults = b /\ openFaults = o /\ closeFaults = k
    /\ status = "running"
    /\ pc = [t \in Threads |-> IF t \in Consumers THEN "unborn" ELSE "idle"]
    /\ stack = [t \in Threads |-> <<>>]
    /\ calls = [t \in Threads |-> 0]
    /\ FullLog = [t \in Producers |-> <<>>]
    /\ buffer = [t \in Consumers |-> <<>>]
    /\ enq = <<>> /\ failed = {} /\ overlap = FALSE
    /\ closeLog = [early |-> FALSE, again |-> FALSE]
    /\ reports = 0 /\ cut = NoCut

\* The state after a first initLog() has returned nil on day 0, as in
\* TestLogFunction (tolog_test.go:11-17): one handle, one pair of channels,
\* one consumer at its select.
Opened(b, o, k) ==
    /\ logFile = 1 /\ isLogFileClosed = FALSE
    /\ currentLogDate = FormatDay(DateOnly, 0)
    /\ LogfilePrefix = "" /\ logFileDateFormat = DateOnly
    /\ LogWithColor = TRUE
    /\ writeChannel = 1 /\ closeChannel = 1 /\ wg = 1
    /\ chans = <<[q |-> <<>>, closed |-> FALSE, sendq |-> <<>>]>>
    /\ sigs = <<FALSE>>
    /\ handles = <<[path |-> LogFilePath("", FormatDay(DateOnly, 0)),
                    closed |-> FALSE]>>
    /\ tick = [t \in Consumers |-> FALSE]
    /\ disk = [f \in Paths |-> <<>>]
    /\ today = 0 /\ writeFaults = b /\ openFaults = o /\ closeFaults = k
    /\ status = "running"
    /\ pc = [t \in Threads |->
               IF t = <<"c", 1>> THEN "sel"
               ELSE IF t \in Consumers THEN "unborn" ELSE "idle"]
    /\ stack = [t \in Threads |-> <<>>]
    /\ calls = [t \in Threads |-> 0]
    /\ FullLog = [t \in Producers |-> <<>>]
    /\ buffer = [t \in Consumers |-> <<>>]
    /\ enq = <<>> /\ failed = {} /\ overlap = FALSE
    /\ closeLog = [early |-> FALSE, again |-> FALSE]
    /\ reports = 0 /\ cut = NoCut

\* --------------------------------------------------------------- helpers
Range(s) == {s[i] : i \in 1..Len(s)}

\* Where a goroutine goes on when a subroutine returns with continuation k:
\* "ret" is the return of the API call itself.
NextPc(k) == IF Head(k) = "ret" THEN "idle" ELSE Head(k)
Resume(t, k) ==
    /\ pc' = [pc EXCEPT ![t] = NextPc(k)]
    /\ stack' = [stack EXCEPT ![t] = Tail(k)]
    /\ calls' = [calls EXCEPT ![t] = IF Head(k) = "ret" THEN @ + 1 ELSE @]

\* A receive that is ready on channel ch: the head of the buffer, or "" when
\* the channel is closed and empty; the first parked sender, if any, puts its
\* line in the freed slot and is woken.
RecvFrom(ch) ==
    LET c == chans[ch] IN
    IF c.q = <<>>
    THEN [entry |-> <<>>, ch |-> c, woken |-> <<>>]
    ELSE IF c.sendq = <<>>
    THEN [entry |-> Head(c.q), ch |-> [c EXCEPT !.q = Tail(c.q)], woken |-> <<>>]
    ELSE [entry |-> Head(c.q),
          ch |-> [c EXCEPT !.q = Append(Tail(c.q),
                                        Append(FullLog[Head(c.sendq)], Newline)),
                           !.sendq = Tail(c.sendq)],
          woken |-> <<Head(c.sendq)>>]

\* --------------------------------------------------------------- flushing
\* flushBuffer from its join on (tolog.go:463-472): the buffer is joined,
\* stripped when LogWithColor is set, and written to logFile.  A write to a
\* nil or closed *os.File fails, and the environment may fail a write; a
\* failed write returns before the buffer is reset.
WriteOut(c, buf, ret, pc0, stk) ==
    LET data == Join(buf)
        out == IF LogWithColor THEN stripColors(data) ELSE data
        bad == logFile = 0 \/ handles[logFile].closed
    IN  \E envFail \in (IF writeFaults > 0 /\ ~bad /\ data # <<>>
                        THEN {FALSE, TRUE} ELSE {FALSE}) :
          /\ IF bad \/ envFail
             THEN /\ buffer' = [buffer EXCEPT ![c] = buf]
                  /\ failed' = failed \cup Range(Contexts(data))
                  /\ disk' = disk
             ELSE /\ buffer' = [buffer EXCEPT ![c] = <<>>]
                  /\ failed' = failed
                  /\ disk' = [disk EXCEPT ![handles[logFile].path] = @ \o out]
          /\ writeFaults' = IF envFail THEN writeFaults - 1 ELSE writeFaults
          /\ pc' = [pc0 EXCEPT ![c] = ret]
          /\ stack' = stk

\* flushBuffer(&buffer) called by consumer c, which goes on at ret.
\* checkLogFileDate (tolog.go:476-482) first: when the formatted day differs
\* from currentLogDate the consumer itself calls CloseLogFile and initLog
\* before it writes.
flushBuffer(c, buf, ret, pc0) ==
    IF currentLogDate # FormatDay(logFileDateFormat, today)
    THEN /\ buffer' = [buffer EXCEPT ![c] = buf]
         /\ IF logFile = 0 \/ isLogFileClosed
            THEN /\ pc' = [pc0 EXCEPT ![c] = "i_open"]
                 /\ stack' = [stack EXCEPT ![c] = <<"f_write", ret>>]
            ELSE /\ pc' = [pc0 EXCEPT ![c] = "c_sig"]
                 /\ stack' = [stack EXCEPT ![c] = <<"i_open", "f_write", ret>>]
         /\ UNCHANGED <<disk, writeFaults, failed>>
    ELSE WriteOut(c, buf, ret, pc0, stack)

\* The write of a flush that rotated, made when initLog has returned.
FlushWrite(c) ==
    /\ Running /\ c \in Consumers /\ pc[c] = "f_write"
    /\ WriteOut(c, buffer[c], Head(stack[c]), pc, [stack EXCEPT ![c] = Tail(@)])
    /\ UNCHANGED <<globals, LogWithColor, heap, today, openFaults, closeFaults, status, calls, FullLog,
                   enq, overlap, closeLog, reports, cut>>

\* --------------------------------------------------------------- consumer
\* buffer = append(buffer, logEntry) (tolog.go:430 and :445).
PushFront(buf, entry) == <<entry>> \o buf
PushBack(buf, entry) == Append(buf, entry)

\* The drain loop's test len(writeChannel) > 0 fails (tolog.go:443); the
\* length of a nil channel is 0.
QueueEmptyAlways == TRUE
QueueEmpty == writeChannel = 0 \/ Len(chans[writeChannel].q) = 0

\* if len(buffer) >= 100 (tolog.go:431 and :446).
AboveThreshold(buf) == Len(buf) > FlushCount
AtThreshold(buf) == Len(buf) >= FlushCount

\* logEntry := <-writeChannel; buffer = append(buffer, logEntry); flush at
\* the count threshold (tolog.go:429-433 and :444-448).
Take(c, ret) ==
    LET r == RecvFrom(writeChannel)
        buf == PushBack(buffer[c], r.entry)
        w == Range(r.woken)
        pc0 == [t \in Threads |-> IF t \in w THEN "idle" ELSE pc[t]]
    IN  /\ chans' = [chans EXCEPT ![writeChannel] = r.ch]
        /\ calls' = [t \in Threads |-> IF t \in w THEN calls[t] + 1 ELSE calls[t]]
        /\ enq' = IF r.woken = <<>> THEN enq
                  ELSE enq \o Contexts(FullLog[r.woken[1]])
        /\ IF AtThreshold(buf)
           THEN flushBuffer(c, buf, ret, pc0)
           ELSE /\ buffer' = [buffer EXCEPT ![c] = buf]
                /\ pc' = [pc0 EXCEPT ![c] = ret]
                /\ UNCHANGED <<stack, disk, writeFaults, failed>>
        /\ UNCHANGED <<globals, LogWithColor, sigs, tick, handles, today, openFaults, closeFaults, status,
                       FullLog, overlap, closeLog, reports, cut>>

\* select case logEntry := <-writeChannel (tolog.go:429): ready when the
\* channel the global names holds a line or is closed.
Recv(c) ==
    /\ Running /\ c \in Consumers /\ pc[c] = "sel"
    /\ writeChannel # 0
    /\ chans[writeChannel].q # <<>> \/ chans[writeChannel].closed
    /\ Take(c, "sel")

\* The runtime timer of time.NewTicker(logTicker) (tolog.go:425) sends a
\* tick on ticker.C, a channel of one slot, every logTicker; a tick that
\* finds the slot taken is dropped.
TimerFire(c) ==
    /\ Running /\ c \in Consumers /\ pc[c] \notin {"unborn", "dead"}
    /\ ~tick[c]
    /\ tick' = [tick EXCEPT ![c] = TRUE]
    /\ UNCHANGED <<globals, LogWithColor, chans, sigs, handles, disk, today,
                   openFaults, closeFaults, writeFaults, status, pc, stack, calls, FullLog,
                   buffer, hist>>

\* select case <-ticker.C (tolog.go:434-437): ready when a tick is pending.
TickAlways(c) ==
    /\ Running /\ c \in Consumers /\ pc[c] = "sel"
    /\ tick[c]
    /\ tick' = [tick EXCEPT ![c] = FALSE]
    /\ flushBuffer(c, buffer[c], "sel", pc)
    /\ UNCHANGED <<globals, LogWithColor, chans, sigs, handles, today,
                   openFaults, closeFaults, status, calls, FullLog, enq, overlap, closeLog,
                   reports, cut>>
TickIdle(c) ==
    /\ Running /\ c \in Consumers /\ pc[c] = "sel"
    /\ tick[c]
    /\ tick' = [tick EXCEPT ![c] = FALSE]
    /\ UNCHANGED <<globals, LogWithColor, chans, sigs, handles, disk, today,
                   openFaults, closeFaults, writeFaults, status, pc, stack, calls, FullLog,
                   buffer, hist>>
Tick(c) ==
    /\ Running /\ c \in Consumers /\ pc[c] = "sel"
    /\ tick[c]
    /\ tick' = [tick EXCEPT ![c] = FALSE]
    /\ IF Len(buffer[c]) > 0
       THEN flushBuffer(c, buffer[c], "sel", pc)
       ELSE UNCHANGED <<buffer, pc, stack, disk, writeFaults, failed>>
    /\ UNCHANGED <<globals, LogWithColor, chans, sigs, handles, today,
                   openFaults, closeFaults, status, calls, FullLog, enq, overlap, closeLog,
                   reports, cut>>

\* select case <-closeChannel (tolog.go:438-441): ready when the channel the
\* global names is closed; the pending buffer is flushed first.
Shutdown(c) ==
    /\ Running /\ c \in Consumers /\ pc[c] = "sel"
    /\ closeChannel # 0 /\ sigs[closeChannel]
    /\ IF Len(buffer[c]) > 0
       THEN flushBuffer(c, buffer[c], "drain", pc)
       ELSE /\ pc' = [pc EXCEPT ![c] = "drain"]
            /\ UNCHANGED <<buffer, stack, disk, writeFaults, failed>>
    /\ UNCHANGED <<globals, LogWithColor, heap, today, openFaults, closeFaults, status, calls, FullLog,
                   enq, overlap, closeLog, reports, cut>>

\* One turn of the drain loop, for len(writeChannel) > 0 (tolog.go:443-449).
Drain(c) ==
    /\ Running /\ c \in Consumers /\ pc[c] = "drain"
    /\ ~QueueEmpty
    /\ Take(c, "drain")

\* The drain loop ends on an empty (or nil) channel: the final flush
\* (tolog.go:451-455).
DrainEnd(c) ==
    /\ Running /\ c \in Consumers /\ pc[c] = "drain"
    /\ QueueEmpty
    /\ IF Len(buffer[c]) > 0
       THEN flushBuffer(c, buffer[c], "exit", pc)
       ELSE /\ pc' = [pc EXCEPT ![c] = "exit"]
            /\ UNCHANGED <<buffer, stack, disk, writeFaults, failed>>
    /\ UNCHANGED <<globals, LogWithColor, heap, today, openFaults, closeFaults, status, calls, FullLog,
                   enq, overlap, closeLog, reports, cut>>

\* return, with the deferred ticker.Stop() and wg.Done() (tolog.go:423,
\* :426 and :455); nothing refers to the ticker any more.
Exit(c) ==
    /\ Running /\ c \in Consumers /\ pc[c] = "exit"
    /\ wg' = wg - 1
    /\ tick' = [tick EXCEPT ![c] = FALSE]
    /\ pc' = [pc EXCEPT ![c] = "dead"]
    /\ UNCHANGED <<logFile, isLogFileClosed, currentLogDate, LogfilePrefix,
                   logFileDateFormat, writeChannel, closeChannel, LogWithColor,
                   chans, sigs, handles, disk, today, openFaults, closeFaults, writeFaults,
                   status, stack, calls, FullLog, buffer, hist>>

\* --------------------------------------------------------------- producers
\* WriteSafe / PrintAndWriteSafe up to their send (tolog.go:379-386 and
\* :409-417): the line is formatted under the colour flag, and initLog is
\* called when logFile is nil.
WriteSafe(t) ==
    /\ Running /\ t \in Producers /\ pc[t] = "idle" /\ calls[t] < MaxLines
    /\ FullLog' = [FullLog EXCEPT ![t] =
                     CreateFullLog(t[2], calls[t] + 1, LogWithColor)]
    /\ IF logFile = 0
       THEN /\ pc' = [pc EXCEPT ![t] = "i_open"]
            /\ stack' = [stack EXCEPT ![t] = <<"w_send">>]
       ELSE /\ pc' = [pc EXCEPT ![t] = "w_send"]
            /\ stack' = stack
    /\ overlap' = (overlap \/ \E k \in Closers \cup Setters : pc[k] # "idle")
    /\ UNCHANGED <<globals, LogWithColor, heap, disk, today, openFaults, closeFaults, writeFaults,
                   status, calls, buffer, enq, failed, closeLog, reports, cut>>

\* A send on channel ch does not block: the buffer of make(chan string,
\* channelSize) (tolog.go:514) has a free slot.
HasRoomAlways(ch) == TRUE
HasRoom(ch) == Len(chans[ch].q) < ChanCap

\* writeChannel <- l.FullLog + "\n" (tolog.go:387 and :418).  The channel is
\* the one the global names when the send starts: nil blocks for ever,
\* closed panics, full parks the sender.
Send(t) ==
    /\ Running /\ t \in Producers /\ pc[t] = "w_send"
    /\ LET ch == writeChannel IN
       IF ch = 0
       THEN /\ pc' = [pc EXCEPT ![t] = "nil_send"]
            /\ UNCHANGED <<chans, status, calls, enq>>
       ELSE IF chans[ch].closed
       THEN /\ status' = "panic: send on closed channel"
            /\ UNCHANGED <<chans, pc, calls, enq>>
       ELSE IF HasRoom(ch)
       THEN /\ chans' = [chans EXCEPT ![ch].q =
                           Append(@, Append(FullLog[t], Newline))]
            /\ pc' = [pc EXCEPT ![t] = "idle"]
            /\ calls' = [calls EXCEPT ![t] = @ + 1]
            /\ enq' = enq \o Contexts(FullLog[t])
            /\ status' = status
       ELSE /\ chans' = [chans EXCEPT ![ch].sendq = Append(@, t)]
            /\ pc' = [pc EXCEPT ![t] = "parked"]
            /\ UNCHANGED <<status, calls, enq>>
    /\ UNCHANGED <<globals, LogWithColor, sigs, tick, handles, disk, today, openFaults, closeFaults,
                   writeFaults, stack, FullLog, buffer, failed, overlap,
                   closeLog, reports, cut>>

\* ----------------------------------------------------------------- initLog
\* initLog up to logFile = file (tolog.go:486-510): the day is formatted and
\* stored, and the file of that day is opened for append and becomes
\* logFile.  When os.Mkdir or os.OpenFile fails, "[error]" is printed and
\* the error returned: WriteSafe and PrintAndWriteSafe return on it
\* (tolog.go:383-385 and :414-416), checkLogFileDate and SetLogPrefix ignore
\* it.
InitOpen(t) ==
    /\ Running /\ pc[t] = "i_open"
    /\ currentLogDate' = FormatDay(logFileDateFormat, today)
    /\ \E envFail \in (IF openFaults > 0 THEN {FALSE, TRUE} ELSE {FALSE}) :
         IF envFail
         THEN /\ openFaults' = openFaults - 1
              /\ reports' = reports + 1
              /\ IF Head(stack[t]) = "w_send"
                 THEN Resume(t, <<"ret">>)
                 ELSE Resume(t, stack[t])
              /\ UNCHANGED <<logFile, handles>>
         ELSE /\ Len(handles) < MaxOpens
              /\ handles' = Append(handles,
                     [path |-> LogFilePath(LogfilePrefix,
                                           FormatDay(logFileDateFormat, today)),
                      closed |-> FALSE])
              /\ logFile' = Len(handles) + 1
              /\ pc' = [pc EXCEPT ![t] = "i_chan"]
              /\ UNCHANGED <<openFaults, reports, stack, calls>>
    /\ UNCHANGED <<isLogFileClosed, LogfilePrefix, logFileDateFormat,
                   writeChannel, closeChannel, wg, LogWithColor, chans, sigs,
                   tick, disk, today, writeFaults, closeFaults, status,
                   FullLog, buffer, enq, failed, overlap, closeLog, cut>>

\* The rest of initLog (tolog.go:512-519): the closed flag is reset, new
\* channels replace the globals and a new writeToFile goroutine is started,
\* with a ticker of its own (tolog.go:425).
InitChan(t) ==
    /\ Running /\ pc[t] = "i_chan"
    /\ isLogFileClosed' = FALSE
    /\ chans' = Append(chans, [q |-> <<>>, closed |-> FALSE, sendq |-> <<>>])
    /\ sigs' = Append(sigs, FALSE)
    /\ writeChannel' = Len(chans) + 1
    /\ closeChannel' = Len(sigs) + 1
    /\ wg' = wg + 1
    /\ pc' = [pc EXCEPT ![t] = NextPc(stack[t]),
                        ![<<"c", Len(chans) + 1>>] = "sel"]
    /\ stack' = [stack EXCEPT ![t] = Tail(@)]
    /\ calls' = [calls EXCEPT ![t] = IF Head(stack[t]) = "ret" THEN @ + 1 ELSE @]
    /\ UNCHANGED <<logFile, currentLogDate, LogfilePrefix, logFileDateFormat,
                   LogWithColor, handles, tick, disk, today, openFaults, closeFaults,
                   writeFaults, status, FullLog, buffer, hist>>

\* ------------------------------------------------------------ CloseLogFile
\* The writer is closed: a CloseLogFile has released a handle and nothing
\* has opened one since.
WriterClosed ==
    /\ logFile = 0 /\ isLogFileClosed
    /\ \E h \in 1..Len(handles) : handles[h].closed

\* The guard of CloseLogFile (tolog.go:524-526), for a caller that goes on
\* with continuation k.
EnterCloseUnguarded(t, k) ==
    /\ pc' = [pc EXCEPT ![t] = "c_sig"]
    /\ stack' = [stack EXCEPT ![t] = k]
    /\ calls' = calls
EnterClose(t, k) ==
    IF logFile = 0 \/ isLogFileClosed
    THEN Resume(t, k)
    ELSE /\ pc' = [pc EXCEPT ![t] = "c_sig"]
         /\ stack' = [stack EXCEPT ![t] = k]
         /\ calls' = calls

\* A goroutine calls CloseLogFile().
CloseLogFile(t) ==
    /\ Running /\ t \in Closers /\ pc[t] = "idle" /\ calls[t] < MaxCloses
    /\ EnterClose(t, <<"ret">>)
    /\ overlap' = (overlap \/ \E u \in Clients \ {t} : pc[u] # "idle")
    /\ closeLog' = [early |-> closeLog.early \/ \E p \in Producers :
                                   pc[p] # "idle" \/ calls[p] < MaxLines,
                    again |-> closeLog.again \/ WriterClosed]
    /\ UNCHANGED <<globals, LogWithColor, heap, disk, today, openFaults, closeFaults,
                   writeFaults, status, FullLog, buffer, enq, failed, reports,
                   cut>>

\* close(closeChannel) (tolog.go:528).
CloseSignal(t) ==
    /\ Running /\ pc[t] = "c_sig"
    /\ IF closeChannel = 0
       THEN /\ status' = "panic: close of nil channel"
            /\ UNCHANGED <<sigs, tick, pc>>
       ELSE IF sigs[closeChannel]
       THEN /\ status' = "panic: close of closed channel"
            /\ UNCHANGED <<sigs, tick, pc>>
       ELSE /\ sigs' = [sigs EXCEPT ![closeChannel] = TRUE]
            /\ pc' = [pc EXCEPT ![t] = "c_wch"]
            /\ status' = status
    /\ UNCHANGED <<globals, LogWithColor, chans, tick, handles, disk, today,
                   openFaults, closeFaults, writeFaults, stack, calls, FullLog, buffer, hist>>

\* if writeChannel != nil { close(writeChannel) } (tolog.go:530-532); the
\* senders parked on the channel panic.
CloseQueue(t) ==
    /\ Running /\ pc[t] = "c_wch"
    /\ IF writeChannel = 0
       THEN /\ pc' = [pc EXCEPT ![t] = "c_wait"]
            /\ UNCHANGED <<chans, status>>
       ELSE IF chans[writeChannel].closed
       THEN /\ status' = "panic: close of closed channel"
            /\ UNCHANGED <<chans, pc>>
       ELSE IF chans[writeChannel].sendq # <<>>
       THEN /\ status' = "panic: send on closed channel"
            /\ chans' = [chans EXCEPT ![writeChannel].closed = TRUE]
            /\ pc' = pc
       ELSE /\ chans' = [chans EXCEPT ![writeChannel].closed = TRUE]
            /\ pc' = [pc EXCEPT ![t] = "c_wait"]
            /\ status' = status
    /\ UNCHANGED <<globals, LogWithColor, sigs, tick, handles, disk, today, openFaults, closeFaults,
                   writeFaults, stack, calls, FullLog, buffer, hist>>

\* if err != nil { log.Fatal("Failed to close log file:", err) }
\* (tolog.go:537-540): the process exits in the middle of CloseLogFile.
CloseErrorReturns(t) ==
    /\ status' = status
    /\ Resume(t, stack[t])
    /\ UNCHANGED <<logFile, isLogFileClosed, handles>>
CloseError(t) ==
    /\ status' = "fatal: Failed to close log file"
    /\ UNCHANGED <<logFile, isLogFileClosed, handles, pc, stack, calls>>

\* CloseFile without the final logFile = nil.
CloseFileKeepsHandle(t) ==
    /\ Running /\ pc[t] = "c_wait"
    /\ wg = 0
    /\ LET bad == logFile = 0 \/ handles[logFile].closed
       IN  \E envFail \in (IF closeFaults > 0 /\ ~bad
                           THEN {FALSE, TRUE} ELSE {FALSE}) :
             /\ closeFaults' = IF envFail THEN closeFaults - 1 ELSE closeFaults
             /\ IF bad \/ envFail
                THEN CloseError(t)
                ELSE /\ handles' = [handles EXCEPT ![logFile].closed = TRUE]
                     /\ isLogFileClosed' = TRUE
                     /\ logFile' = logFile
                     /\ Resume(t, stack[t])
                     /\ status' = status
    /\ UNCHANGED <<currentLogDate, LogfilePrefix, logFileDateFormat,
                   writeChannel, closeChannel, wg, LogWithColor, chans, sigs,
                   tick, disk, today, openFaults, writeFaults, FullLog, buffer,
                   hist>>

\* wg.Wait() returns when the counter is zero; logFile.Close(), which fails
\* on a nil or already closed file and which the environment may fail, and
\* log.Fatal on its error; then isLogFileClosed = true and logFile = nil
\* (tolog.go:534-542).
CloseFile(t) ==
    /\ Running /\ pc[t] = "c_wait"
    /\ wg = 0
    /\ LET bad == logFile = 0 \/ handles[logFile].closed
       IN  \E envFail \in (IF closeFaults > 0 /\ ~bad
                           THEN {FALSE, TRUE} ELSE {FALSE}) :
             /\ closeFaults' = IF envFail THEN closeFaults - 1 ELSE closeFaults
             /\ IF bad \/ envFail
                THEN CloseError(t)
                ELSE /\ handles' = [handles EXCEPT ![logFile].closed = TRUE]
                     /\ isLogFileClosed' = TRUE
                     /\ logFile' = 0
                     /\ Resume(t, stack[t])
                     /\ status' = status
    /\ UNCHANGED <<currentLogDate, LogfilePrefix, logFileDateFormat,
                   writeChannel, closeChannel, wg, LogWithColor, chans, sigs,
                   tick, disk, today, openFaults, writeFaults, FullLog, buffer,
                   hist>>

\* ---------------------------------------------------------- configuration
\* The path of the file logFile names, <<>> for nil.
ActivePath == IF logFile = 0 THEN <<>> ELSE handles[logFile].path

\* SetLogPrefix(prefix) (tolog.go:122-126): the prefix is stored, then
\* CloseLogFile() and initLog() are called, the error of initLog ignored.
SetLogPrefix(t, prefix) ==
    /\ Running /\ t \in Setters /\ pc[t] = "idle" /\ calls[t] < MaxSets
    /\ LogfilePrefix' = prefix
    /\ EnterClose(t, <<"i_open", "ret">>)
    /\ overlap' = (overlap \/ \E u \in Clients \ {t} : pc[u] # "idle")
    /\ cut' = [enq |-> enq, path |-> ActivePath]
    /\ UNCHANGED <<logFile, isLogFileClosed, currentLogDate, logFileDateFormat,
                   writeChannel, closeChannel, wg, LogWithColor, heap, disk,
                   today, openFaults, closeFaults, writeFaults, status, FullLog, buffer,
                   enq, failed, closeLog, reports>>

\* SetLogFileDateFormat(format) (tolog.go:142-144): the format is stored.
SetLogFileDateFormat(t, format) ==
    /\ Running /\ t \in Setters /\ pc[t] = "idle" /\ calls[t] < MaxSets
    /\ logFileDateFormat' = format
    /\ calls' = [calls EXCEPT ![t] = @ + 1]
    /\ overlap' = (overlap \/ \E u \in Clients \ {t} : pc[u] # "idle")
    /\ cut' = [enq |-> enq, path |-> ActivePath]
    /\ UNCHANGED <<logFile, isLogFileClosed, currentLogDate, LogfilePrefix,
                   writeChannel, closeChannel, wg, LogWithColor, heap, disk,
                   today, openFaults, closeFaults, writeFaults, status, pc, stack, FullLog,
                   buffer, enq, failed, closeLog, reports>>

\* ------------------------------------------------------------ environment
\* Midnight: time.Now() moves to the next day.
DateChange ==
    /\ Running /\ today < MaxDay
    /\ today' = today + 1
    /\ UNCHANGED <<globals, LogWithColor, heap, disk, openFaults, closeFaults, writeFaults,
                   status, pc, stack, calls, FullLog, buffer, hist>>

\* SetLogWithColor(flag) (tolog.go:117-119).
SetLogWithColor(flag) ==
    /\ Running
    /\ LogWithColor' = flag
    /\ UNCHANGED <<globals, heap, disk, today, openFaults, closeFaults, writeFaults, status, pc, stack,
                   calls, FullLog, buffer, hist>>

\* ---------------------------------------------------------- specifications
\* The steps of the writer's own goroutines and subroutines.  FlushWrite is
\* not among them: in the specifications below a consumer that rotates
\* never gets past CloseLogFile, so none of their runs reaches "f_write".
Writer(t) ==
    \/ InitOpen(t) \/ InitChan(t)
    \/ CloseSignal(t) \/ CloseQueue(t) \/ CloseFile(t)
    \/ TimerFire(t) \/ Recv(t) \/ Tick(t)
    \/ Shutdown(t) \/ Drain(t) \/ DrainEnd(t) \/ Exit(t)

Producer1 == <<"p", 1>>
Closer1 == <<"k", 1>>

\* An open writer, all producers logging and one goroutine closing, all
\* concurrently, on a file system that may fail writes.
Init == Opened(MaxWriteFails, 0, 0)
Next ==
    \/ \E t \in Producers : WriteSafe(t) \/ Send(t)
    \/ CloseLogFile(Closer1)
    \/ \E t \in Threads : Writer(t)
Spec == Init /\ [][Next]_vars

\* From package initialisation: one producer logging and all the closing
\* goroutines, concurrently.
InitClose == Uninitialized(0, 0, 0)
NextClose ==
    \/ WriteSafe(Producer1) \/ Send(Producer1)
    \/ \E t \in Closers : CloseLogFile(t)
    \/ \E t \in Threads : Writer(t)
SpecClose == InitClose /\ [][NextClose]_vars

\* An open writer, one producer logging and one goroutine closing, while
\* the day changes and the colour flag is reconfigured.
InitEnv == Opened(0, 0, 0)
NextEnv ==
    \/ WriteSafe(Producer1) \/ Send(Producer1)
    \/ CloseLogFile(Closer1)
    \/ \E t \in Threads : Writer(t)
    \/ DateChange
    \/ \E flag \in BOOLEAN : SetLogWithColor(flag)
SpecEnv == InitEnv /\ [][NextEnv]_vars

\* An open writer that is never closed: all producers logging, the ticker
\* firing and the consumer scheduled fairly.
InitLive == Opened(0, 0, 0)
NextLive ==
    \/ \E t \in Producers : WriteSafe(t) \/ Send(t)
    \/ \E c \in Consumers : TimerFire(c) \/ Recv(c) \/ Tick(c)
SpecLive ==
    /\ InitLive /\ [][NextLive]_vars
    /\ \A c \in Consumers :
         WF_vars(TimerFire(c)) /\ WF_vars(Recv(c)) /\ WF_vars(Tick(c))

\* From package initialisation, on a file system that may fail initLog: all
\* producers logging and one goroutine closing, concurrently.
InitInit == Uninitialized(0, MaxOpenFails, 0)
NextInit ==
    \/ \E t \in Producers : WriteSafe(t) \/ Send(t)
    \/ CloseLogFile(Closer1)
    \/ \E t \in Threads : Writer(t)
SpecInit == InitInit /\ [][NextInit]_vars

\* An open writer, one producer logging and one goroutine reconfiguring the
\* prefix or the file date format.
InitSet == Opened(0, 0, 0)
NextSet ==
    \/ WriteSafe(Producer1) \/ Send(Producer1)
    \/ \E prefix \in Prefixes : SetLogPrefix(Setter1, prefix)
    \/ \E format \in Formats : SetLogFileDateFormat(Setter1, format)
    \/ \E t \in Threads : Writer(t)
SpecSet == InitSet /\ [][NextSet]_vars

\* An open writer whose ticker never fires: all producers logging, the
\* consumer scheduled fairly.
InitCount == Opened(0, 0, 0)
NextCount ==
    \/ \E t \in Producers : WriteSafe(t) \/ Send(t)
    \/ \E c \in Consumers : Recv(c)
SpecCount ==
    /\ InitCount /\ [][NextCount]_vars
    /\ \A c \in Consumers : WF_vars(Recv(c))

\* An open writer on a file system that may fail the close of the file: one
\* producer logging and one goroutine closing.
InitFatal == Opened(0, 0, MaxCloseFails)
NextFatal ==
    \/ WriteSafe(Producer1) \/ Send(Producer1)
    \/ CloseLogFile(Closer1)
    \/ \E t \in Threads : Writer(t)
SpecFatal == InitFatal /\ [][NextFatal]_vars

\* ------------------------------------------------------------- properties
\* The lines of a string: the pieces that end in "\n".
RECURSIVE LinesFrom(_, _)
LinesFrom(s, cur) ==
    IF s = <<>> THEN (IF cur = <<>> THEN <<>> ELSE <<cur>>)
    ELSE IF Head(s) = Newline
         THEN <<cur>> \o LinesFrom(Tail(s), <<>>)
         ELSE LinesFrom(Tail(s), Append(cur, Head(s)))
Lines(s) == LinesFrom(s, <<>>)

IsPrefix(a, b) == Len(a) <= Len(b) /\ SubSeq(b, 1, Len(a)) = a

\* The file of day d under the empty prefix, and the log calls in it.
FileOf(d) == disk[LogFilePath("", FormatDay(DateOnly, d))]
Written(d) == Contexts(FileOf(d))
OnDisk == UNION {Range(Contexts(disk[f])) : f \in Paths}

\* The log calls of producer number p among ids, in order.
Of(ids, p) == SelectSeq(ids, LAMBDA id : id[1] = p)

AllReturned == \A p \in Producers : pc[p] = "idle" /\ calls[p] = MaxLines

\* C1: with the writer open, when all producers have enqueued their MaxLines
\* lines and returned and CloseLogFile is called after that and returns, and
\* no file write failed, the file holds exactly those NumProducers * MaxLines
\* lines: each a whole line, each log call once, and every producer's lines
\* in its own order.
C1_AllLinesOnceInProducerOrder ==
    (AllReturned /\ calls[Closer1] = 1 /\ ~closeLog.early /\ failed = {}) =>
        /\ Len(Lines(FileOf(0))) = NumProducers * MaxLines
        /\ \A i \in 1..Len(Lines(FileOf(0))) :
             \E p \in 1..NumProducers, n \in 1..MaxLines :
               Lines(FileOf(0))[i] = stripColors(CreateFullLog(p, n, TRUE))
        /\ \A p \in 1..NumProducers :
             Of(Written(0), p) = [n \in 1..MaxLines |-> <<p, n>>]

C1_Witness ==
    /\ AllReturned /\ calls[Closer1] = 1 /\ ~closeLog.early /\ failed = {}
    /\ Len(Written(0)) = NumProducers * MaxLines
    /\ Written(0)[1][1] # Written(0)[2][1]

OnlyProducer1 ==
    \A p \in Producers \ {Producer1} : pc[p] = "idle" /\ calls[p] = 0

\* C2: with a single producer, no CloseLogFile call concurrent with a log
\* call and no failed write, the log calls in the file are at every moment a
\* prefix of the log calls enqueued, and once CloseLogFile has returned (and
\* the writer is still closed) they are all of them.
C2_FileIsPrefixOfEnqueued ==
    (OnlyProducer1 /\ ~overlap /\ failed = {}) =>
        /\ IsPrefix(Written(0), enq)
        /\ (calls[Closer1] = 1 /\ logFile = 0) => Written(0) = enq

C2_Witness ==
    /\ OnlyProducer1 /\ ~overlap /\ failed = {}
    /\ calls[Closer1] = 1 /\ logFile = 0
    /\ Written(0) = <<<<1, 1>>, <<1, 2>>>>

\* C3: when CloseLogFile has returned (and nothing has reopened the writer,
\* so that every completed enqueue went into the queue before it was closed)
\* and no write failed, every line whose enqueue completed is in the file.
C3_CloseDrainsAllEnqueued ==
    (calls[Closer1] = 1 /\ logFile = 0 /\ failed = {}) =>
        Range(enq) \subseteq Range(Written(0))

\* Consumer c is inside the rotation of a flush: checkLogFileDate has found
\* another day and the batch is not written yet.
Rotating(c) == "f_write" \in Range(stack[c])

\* C4: a flush that finds the day changed completes and the writer keeps
\* operating: the process does not end, and the flushing consumer is never
\* left in CloseLogFile's wg.Wait(), which waits for the exit of the very
\* consumer that is flushing.
C4_RotationCompletes ==
    \A c \in Consumers :
        Rotating(c) => (status = "running" /\ pc[c] # "c_wait")

\* C5: a CloseLogFile call made while the writer is closed returns at once:
\* the step that makes the call also returns from it and changes no global,
\* no channel, no file handle, no file content and no consumer.
C5_CloseOnClosedIsNoOp ==
    [][\A t \in Closers :
         (WriterClosed /\ pc[t] = "idle"
            /\ (pc'[t] # "idle" \/ calls'[t] # calls[t])) =>
         /\ pc'[t] = "idle" /\ calls'[t] = calls[t] + 1
         /\ UNCHANGED <<globals, LogWithColor, heap, disk, status, buffer>>
         /\ \A u \in Threads \ {t} : pc'[u] = pc[u]]_vars

\* Both CloseLogFile calls were made one after the other, after the producer
\* had logged: the first closed the writer, the second found it closed.
C5_Witness ==
    /\ \A t \in Closers : calls[t] = 1 /\ pc[t] = "idle"
    /\ ~overlap /\ closeLog.again
    /\ WriterClosed /\ Len(handles) = 1
    /\ Len(Written(0)) = MaxLines
    /\ status = "running"

\* C6: concurrent CloseLogFile calls never close the shutdown signal, the
\* queue or the file handle twice (a second close of a channel panics, a
\* second Close of the file is fatal).
C6_ConcurrentCloseIsSafe ==
    status \notin {"panic: close of closed channel",
                   "fatal: Failed to close log file"}

\* C7: a batch whose write failed is dropped: none of its lines stays in a
\* consumer's buffer, and none is written to a file afterwards.
C7_FailedBatchIsDropped ==
    /\ \A c \in Consumers : Range(Contexts(Join(buffer[c]))) \cap failed = {}
    /\ OnDisk \cap failed = {}

\* The lines in a channel's buffer or in a consumer's buffer, as log calls.
InQueues == UNION {Range(Contexts(Join(chans[ch].q))) : ch \in 1..Len(chans)}
InBuffers == UNION {Range(Contexts(Join(buffer[c]))) : c \in Consumers}

QueueBounded == \A ch \in 1..Len(chans) : Len(chans[ch].q) <= ChanCap

\* Every log call that has returned has enqueued its line, and every
\* enqueued line is in the queue, in the consumer's buffer or in the file.
NoLineDropped ==
    /\ \A p \in Producers : Len(Of(enq, p[2])) = calls[p]
    /\ Range(enq) = InQueues \cup InBuffers \cup OnDisk
    /\ Len(enq) = Cardinality(Range(enq))

\* A producer is parked only on a full queue.
ParkedOnFull ==
    \A p \in Producers : pc[p] = "parked" =>
        \E ch \in 1..Len(chans) :
            p \in Range(chans[ch].sendq) /\ Len(chans[ch].q) = ChanCap

\* C8: while the writer stays open the queue never holds more than its
\* capacity, a send blocks only on a full queue, no enqueue loses a line,
\* and every blocked send completes.
C8_Backpressure ==
    /\ [](QueueBounded /\ ParkedOnFull /\ NoLineDropped)
    /\ \A p \in Producers : (pc[p] = "parked") ~> (pc[p] = "idle")

C8_Witness ==
    \E p \in Producers :
        /\ pc[p] = "parked"
        /\ Len(chans[writeChannel].q) = ChanCap
        /\ chans[writeChannel].sendq = <<p>>

\* The writer's state: no handle before the first open is Uninitialized and
\* after a close is Closed; a handle with a CloseLogFile past its guard is
\* Draining, and Open otherwise.
WriterState ==
    IF logFile = 0
    THEN IF handles = <<>> THEN "Uninitialized" ELSE "Closed"
    ELSE IF \E t \in Threads : pc[t] \in {"c_sig", "c_wch", "c_wait"}
         THEN "Draining" ELSE "Open"

WriterMoves ==
    {<<"Uninitialized", "Open">>, <<"Open", "Draining">>,
     <<"Draining", "Closed">>, <<"Closed", "Open">>}

\* With the log calls and the CloseLogFile calls made one after the other
\* and the writer at rest: while open, the handle, the queue and the
\* consumer are the ones the last initLog made, and they are live.
OpenIsFresh ==
    (~overlap /\ WriterState = "Open" /\ \A t \in Clients : pc[t] = "idle") =>
        /\ logFile = Len(handles) /\ ~handles[logFile].closed
        /\ writeChannel = Len(chans) /\ ~chans[writeChannel].closed
        /\ closeChannel = Len(sigs) /\ ~sigs[closeChannel]
        /\ pc[<<"c", writeChannel>>] = "sel"
        /\ wg = 1

\* ... and once closed, every line enqueued so far, before or after a
\* reopening, is in the file.
ClosedHasAll ==
    (~overlap /\ WriterState = "Closed" /\ \A t \in Clients : pc[t] = "idle") =>
        Written(0) = enq

\* C9: as long as no CloseLogFile call has run concurrently with another
\* call, the writer moves only along Uninitialized -> Open -> Draining ->
\* Closed -> Open; a log call made after CloseLogFile has returned reopens
\* it with a new handle, a new queue and a new consumer, and its line is in
\* the file when the writer is closed again.
C9_ReopenAfterClose ==
    /\ [][(~overlap' /\ WriterState' # WriterState) =>
            <<WriterState, WriterState'>> \in WriterMoves]_vars
    /\ [](OpenIsFresh /\ ClosedHasAll)

\* The producer logged, the writer was closed, the producer's second call
\* reopened it, and it was closed again.
C9_Witness ==
    /\ ~overlap /\ WriterState = "Closed" /\ \A t \in Clients : pc[t] = "idle"
    /\ Len(handles) = 2 /\ Len(chans) = 2 /\ pc[<<"c", 2>>] = "dead"
    /\ Written(0) = <<<<1, 1>>, <<1, 2>>>>
    /\ \A t \in Closers : calls[t] = 1

\* C10: no file ever holds a colour code, whatever the colour flag was when
\* a line was formatted and whatever it is when the line is flushed.
C10_NoColourInFile ==
    \A f \in Paths : Range(disk[f]) \cap replacements = {}

\* The writer is as package initialisation left it: no handle, the closed
\* flag set, no queue, no shutdown signal, no consumer.
NeverOpened ==
    /\ logFile = 0 /\ isLogFileClosed
    /\ writeChannel = 0 /\ closeChannel = 0
    /\ wg = 0 /\ \A c \in Consumers : pc[c] = "unborn"

\* C11: with a single producer and as long as every initLog has failed, the
\* log calls return without blocking or ending the process, nothing is
\* enqueued and the writer stays as it was; the failure is reported once,
\* since initLog is not called again by the log calls that follow the first
\* failure.
C11_InitFailureDropsOnce ==
    (OnlyProducer1 /\ reports > 0 /\ handles = <<>>) =>
        /\ NeverOpened /\ enq = <<>> /\ status = "running"
        /\ \A p \in Producers : pc[p] \in {"idle", "i_open"}
        /\ reports = 1

\* The file of the current configuration on the current day.
ConfiguredPath ==
    LogFilePath(LogfilePrefix, FormatDay(logFileDateFormat, today))

\* C12: when a call that reconfigures the prefix or the file date format has
\* returned (no call having run concurrently with it), the lines enqueued
\* before the call are in the file that was active before it, the handles
\* opened before are released, the file of the new configuration is open,
\* and any other line written is in that file.
C12_ReconfigureIsCloseThenRecreate ==
    (calls[Setter1] = 1 /\ pc[Setter1] = "idle" /\ ~overlap) =>
        /\ IsPrefix(cut.enq, Contexts(disk[cut.path]))
        /\ logFile # 0 /\ ~handles[logFile].closed
        /\ handles[logFile].path = ConfiguredPath
        /\ \A h \in 1..Len(handles) : h # logFile => handles[h].closed
        /\ \A f \in Paths \ {ConfiguredPath} :
             Range(Contexts(disk[f])) \subseteq Range(cut.enq)

\* The lines the consumer has received from the queue so far.
Received == Len(enq) - Len(chans[writeChannel].q)

\* C13: without any timer tick (and with the day unchanged and no failed
\* write), the consumer never rests at its select with FlushCount lines or
\* more in its buffer: the file holds every full batch of FlushCount lines
\* the consumer has received, and once FlushCount lines are enqueued the
\* first FlushCount of them get into the file.
C13_CountTriggerFlushes ==
    /\ [](\A c \in Consumers : pc[c] = "sel" => Len(buffer[c]) < FlushCount)
    /\ [](Len(Written(0)) = FlushCount * (Received \div FlushCount))
    /\ (Len(enq) >= FlushCount) ~>
           (/\ Len(enq) >= FlushCount
            /\ IsPrefix(SubSeq(enq, 1, FlushCount), Written(0)))

\* Exactly FlushCount lines were enqueued, no tick has fired, and the file
\* holds them.
C13_Witness ==
    /\ Len(enq) = FlushCount /\ Written(0) = enq
    /\ \A c \in Consumers : ~tick[c] /\ buffer[c] = <<>>

\* C14: with the writer open, CloseLogFile never called, the day unchanged
\* and the ticker firing, every line enqueued gets into the file, also when
\* fewer lines than the count threshold are pending.
C14_TimerFlushesEveryLine ==
    \A p \in 1..NumProducers, n \in 1..MaxLines :
        (<<p, n>> \in Range(enq)) ~> (<<p, n>> \in Range(Written(0)))

\* A single line was enqueued and a tick has flushed it.
C14_Witness ==
    /\ Len(enq) = 1 /\ Written(0) = enq
    /\ FlushCount > 1
    /\ \A c \in Consumers : buffer[c] = <<>>

\* The writeToFile goroutines that have started and not returned.
Alive == {c \in Consumers : pc[c] \notin {"unborn", "dead"}}

\* C15: at most one writeToFile goroutine is alive at any time, and no line
\* is held by a queue other than the one the consumer reads.
C15_SingleConsumer ==
    /\ Cardinality(Alive) <= 1
    /\ \A ch \in 1..Len(chans) : ch # writeChannel => chans[ch].q = <<>>

\* No goroutine is inside initLog or CloseLogFile.
AtRest ==
    \A t \in Threads : pc[t] \notin {"i_open", "i_chan", "c_sig", "c_wch", "c_wait"}

\* C16: whenever the process is running and no initLog or CloseLogFile call
\* is in progress, the file handle is nil exactly when the closed flag is
\* set.
C16_HandleNilIffClosed ==
    (Running /\ AtRest) => (logFile = 0 <=> isLogFileClosed)

\* C17: a CloseLogFile call that runs while no log call is in progress never
\* ends the process, on whatever day the flushes of the drain are made; and
\* when it has returned (nothing having reopened the writer since) the
\* consumer has exited, the queue and the buffer are empty and the handle is
\* released.
C17_CloseTerminates ==
    (~overlap /\ (pc[Closer1] # "idle" \/ calls[Closer1] = 1)) =>
        /\ status = "running"
        /\ (pc[Closer1] = "idle" /\ Len(handles) = 1) =>
              /\ logFile = 0 /\ isLogFileClosed /\ handles[1].closed
              /\ Alive = {}
              /\ \A ch \in 1..Len(chans) : chans[ch].q = <<>>
              /\ \A c \in Consumers : buffer[c] = <<>>

\* C18: no log call sends on a closed queue or is blocked on the queue when
\* it is closed (either ends the process with the panic "send on closed
\* channel"), and none sends on a nil queue (where it blocks for ever).
C18_NoSendOnClosedQueue ==
    /\ status # "panic: send on closed channel"
    /\ \A p \in Producers : pc[p] # "nil_send"

\* C19: whenever a consumer is at its select, its buffer holds fewer lines
\* than the count threshold, whether the flushes before succeeded or failed.
C19_BufferBelowThreshold ==
    \A c \in Consumers : pc[c] = "sel" => ~AtThreshold(buffer[c])

\* Consumer c takes a tick with an empty buffer, or receives a line that
\* leaves its buffer below the count threshold.
TickOnEmpty(c) ==
    pc[c] = "sel" /\ tick[c] /\ ~tick'[c] /\ buffer[c] = <<>>
ArrivalBelowThreshold(c) ==
    /\ pc[c] = "sel" /\ Len(buffer'[c]) = Len(buffer[c]) + 1
    /\ ~AtThreshold(buffer'[c])

\* C20: a tick that finds the buffer empty and the arrival of a line that
\* does not fill the buffer to the threshold start no rotation, on any day:
\* the consumer is back at its select, and the file handle, the closed
\* flag, the date of the active file and the contents of the files are as
\* before.
C20_RotationOnlyInFlush ==
    [][\A c \in Consumers :
         (TickOnEmpty(c) \/ ArrivalBelowThreshold(c)) =>
             /\ pc'[c] = "sel" /\ stack'[c] = stack[c]
             /\ UNCHANGED <<logFile, isLogFileClosed, currentLogDate, handles,
                            disk>>]_vars

\* The day is no longer the day of the open file, a line has arrived and
\* left the buffer below the threshold, no tick is pending; the file of the
\* old day is still the open one and nothing is written.
C20_Witness ==
    /\ today = 1 /\ currentLogDate = FormatDay(DateOnly, 0)
    /\ pc[<<"c", 1>>] = "sel" /\ Len(buffer[<<"c", 1>>]) = 1
    /\ ~AtThreshold(buffer[<<"c", 1>>]) /\ ~tick[<<"c", 1>>]
    /\ logFile = 1 /\ ~handles[1].closed /\ OnDisk = {}
    /\ status = "running"

\* No goroutine is inside CloseLogFile.
NoCloseInProgress ==
    \A t \in Threads : pc[t] \notin {"c_sig", "c_wch", "c_wait"}

\* C21: once a close of the file handle has failed the process has ended
\* with log.Fatal; and, CloseLogFile calls in progress apart, the process
\* never runs with the handle held and the closed flag unset while the
\* queue is closed and no consumer is alive.
C21_CloseFailureIsFatal ==
    /\ (closeFaults < MaxCloseFails) =>
          status = "fatal: Failed to close log file"
    /\ (Running /\ NoCloseInProgress /\ logFile # 0 /\ ~isLogFileClosed) =>
          ~(chans[writeChannel].closed /\ Alive = {})

\* The consumer has drained and exited, the queue is closed, the close of
\* the file has failed: the handle is still held, the closed flag unset,
\* and the process has ended.
C21_Witness ==
    /\ closeFaults < MaxCloseFails
    /\ status = "fatal: Failed to close log file"
    /\ Alive = {} /\ chans[writeChannel].closed
    /\ logFile = 1 /\ ~handles[1].closed /\ ~isLogFileClosed
    /\ Len(Written(0)) = MaxLines

====
